---- MODULE Spec2Model ----
(***************************************************************************)
(* A model of the crate not-found-error (src/src/lib.rs): the phantom      *)
(* error type NotFoundError<T>, the conversions require, not_found,        *)
(* Require::require, OkOrNotFound::ok_or_not_found and locate, and a       *)
(* caller that invokes them in any order.                                  *)
(*                                                                         *)
(* Rust types are static; the model carries them as tags.  A value of type *)
(* T is [T |-> T, v |-> n], an Option<T> carries T in both variants, and a *)
(* NotFoundError<T> is the tuple struct's single field PhantomData<T>.     *)
(***************************************************************************)
EXTENDS Integers, Sequences, FiniteSets, TLC

\* ------------------------------------------------------------------ bounds
MaxInt == 2          \* payloads of a type are 0..MaxInt
MaxLen == 3          \* longest sequence handed to locate
MaxHits == 2         \* the history counters saturate here
MaxExtraPulls == 2   \* a cycling iterator is pulled at most MaxLen + this
MaxHistoryLen == 1   \* longest sequence handed to locate between recorded calls

\* ------------------------------------------------------------------- state
VARIABLES
    last,        \* the caller's most recent call: [op, arg, out]
    watched,     \* one Option value whose conversions are recorded
    fnOut,       \* the results require(watched) has returned so far
    methodOut,   \* the results watched.require() has returned so far
    fnHits,      \* how often require(watched) was called (saturating)
    methodHits,  \* how often watched.require() was called (saturating)
    others,      \* how many other calls followed the first recorded one (saturating)
    pc,          \* where a running locate call is: idle, find, return, done
    it,          \* its iterator, iter.into_iter(): [T, items, cycle]
    pred,        \* its predicate
    pos,         \* how many items Iterator::next has yielded to find
    evals,       \* the indices the predicate was evaluated on, in order
    found,       \* what Iterator::find returned
    ret          \* what locate returned

history == <<watched, fnOut, methodOut, fnHits, methodHits, others>>
scan == <<pc, it, pred, pos, evals, found, ret>>
vars == <<last, watched, fnOut, methodOut, fnHits, methodHits, others,
          pc, it, pred, pos, evals, found, ret>>

\* ------------------------------------------------------------------- types
Types == {"i32", "&i32", "String"}

\* std::any::type_name::<T>() as the reference toolchain prints it.
type_name(T) ==
    CASE T = "i32" -> "i32"
      [] T = "&i32" -> "&i32"
      [] T = "String" -> "alloc::string::String"

Values(T) == [T : {T}, v : 0..MaxInt]

\* Option<T>
Some(x) == [kind |-> "Some", T |-> x.T, val |-> x]
None(T) == [kind |-> "None", T |-> T]
Options == UNION {{Some(x) : x \in Values(T)} \cup {None(T)} : T \in Types}

\* Result<T, E>
Ok(x) == [kind |-> "Ok", val |-> x]
Err(e) == [kind |-> "Err", err |-> e]

\* std::marker::PhantomData<T>: no data, only the type parameter.
PhantomData(T) == [T |-> T]

\* pub struct NotFoundError<T>(pub PhantomData<T>);
NotFoundError(T) == [struct |-> "NotFoundError", f0 |-> PhantomData(T)]

\* Option::ok_or: Some(v) => Ok(v), None => Err(err).
Option_ok_or(option, err) ==
    IF option.kind = "Some" THEN Ok(option.val) ELSE Err(err)

\* ------------------------------------------------- NotFoundError<T> methods
NotFoundError_new(T) == NotFoundError(T)

NotFoundError_default(T) == NotFoundError_new(T)

\* The target error types of result::<Err>(), each with its From impl:
\* NotFoundError<T> itself (the reflexive From), Box<dyn Error> (boxes the
\* error) and a caller's enum with a NotFound variant wrapping it.
ErrOuts == {"Self", "BoxDynError", "AppError"}

From_from(e, ErrOut) ==
    CASE ErrOut = "Self" -> e
      [] ErrOut = "BoxDynError" -> [struct |-> "Box", inner |-> e]
      [] ErrOut = "AppError" -> [struct |-> "AppError", variant |-> "NotFound", f0 |-> e]

\* Variant: the error is returned as built, the conversion into ErrOut left out.
NotFoundError_result_unconverted(T, ErrOut) == Err(NotFoundError_new(T))

NotFoundError_result(T, ErrOut) == Err(From_from(NotFoundError_new(T), ErrOut))

\* Variant: the message ends in a full stop.
Display_fmt_full_stop(self) == type_name(self.f0.T) \o " not found."

\* write!(f, "{} not found", type_name::<T>())
Display_fmt(self) == type_name(self.f0.T) \o " not found"

\* #[derive(PartialEq)]: field-wise; PhantomData<T> == PhantomData<T> is true.
PhantomData_eq(a, b) == TRUE

\* Variant: a hand-written eq that compares identities, never equal.
NotFoundError_eq_by_identity(self, other) == FALSE

NotFoundError_eq(self, other) == PhantomData_eq(self.f0, other.f0)

\* #[derive(Ord)]: lexicographic over the fields; PhantomData compares Equal.
PhantomData_cmp(a, b) == "Equal"

NotFoundError_cmp(self, other) == PhantomData_cmp(self.f0, other.f0)

\* #[derive(Hash)]: feeds each field to the hasher; PhantomData feeds nothing.
\* The hasher state is the sequence of words written so far.
PhantomData_hash(self, state) == state

NotFoundError_hash(self, state) == PhantomData_hash(self.f0, state)

\* ----------------------------------------------------------- conversions
\* Variant: the option is ignored, the error returned always.
require_always_err(option) == Err(NotFoundError(option.T))

\* Variant: Ok(option.unwrap()), which panics on None.
require_unwrap(option) ==
    IF option.kind = "Some" THEN Ok(option.val) ELSE [kind |-> "Panic"]

\* Variant: the error is built once and kept; while the previous call was a
\* require that failed, its error is returned again.
require_cached(option) ==
    IF last.op = "require" /\ last.out.kind = "Err"
    THEN last.out
    ELSE Option_ok_or(option, NotFoundError(option.T))

require(option) == Option_ok_or(option, NotFoundError(option.T))

not_found(AnotherType) == NotFoundError(AnotherType)

\* Variant: the method form maps through the error only and drops the value.
Require_require_drops_value(self) == Err(NotFoundError(self.T))

Require_require(self) == Option_ok_or(self, NotFoundError(self.T))

\* Variant: the error is tagged with the option's own type, as in require.
OkOrNotFound_ok_or_not_found_own_tag(self, B) ==
    Option_ok_or(self, NotFoundError(self.T))

OkOrNotFound_ok_or_not_found(self, B) == Option_ok_or(self, NotFoundError(B))

\* The predicates of the doctests: n % 2 == 0, n > 10, n == 0.
Predicates == {"is_even", "gt_10", "is_zero"}

Apply(f, x) ==
    CASE f = "is_even" -> x.v % 2 = 0
      [] f = "gt_10" -> x.v > 10
      [] f = "is_zero" -> x.v = 0

\* A finite iterable: its item type and its items in iteration order.
ItemTypes == {"i32", "&i32"}
Item(T, n) == [T |-> T, v |-> n]
SeqsUpTo(n) == UNION {[1..k -> 0..MaxInt] : k \in 0..n}
IterablesUpTo(n) == [T : ItemTypes, items : SeqsUpTo(n)]
Iterables == IterablesUpTo(MaxLen)

\* Variant: the last item the predicate accepts (rfind on a finite sequence).
RECURSIVE Iterator_find_last(_, _, _)
Iterator_find_last(T, items, f) ==
    IF items = <<>> THEN None(T)
    ELSE LET later == Iterator_find_last(T, Tail(items), f) IN
         IF later.kind = "Some" THEN later
         ELSE IF Apply(f, Item(T, Head(items))) THEN Some(Item(T, Head(items)))
         ELSE None(T)

\* Iterator::find: the first item the predicate accepts, None if there is none.
RECURSIVE Iterator_find(_, _, _)
Iterator_find(T, items, f) ==
    IF items = <<>> THEN None(T)
    ELSE IF Apply(f, Item(T, Head(items))) THEN Some(Item(T, Head(items)))
    ELSE Iterator_find(T, Tail(items), f)

locate(iter, f) == require(Iterator_find(iter.T, iter.items, f))

\* ----------------------------------------------------------- initial state
NoCall == [op |-> "none", arg |-> "none", out |-> "none"]
NoIter == [T |-> "i32", items |-> <<>>, cycle |-> FALSE]
Nothing == [kind |-> "unset"]

\* The state every behaviour starts from, but for the choice of watched.
NoCalls ==
    /\ last = NoCall
    /\ fnOut = {}
    /\ methodOut = {}
    /\ fnHits = 0
    /\ methodHits = 0
    /\ others = 0
    /\ pc = "idle"
    /\ it = NoIter
    /\ pred = "is_even"
    /\ pos = 0
    /\ evals = <<>>
    /\ found = Nothing
    /\ ret = Nothing

\* No call has been made; nothing is recorded.
Init == NoCalls /\ watched = Nothing

\* No call has been made; the conversions of one Option value are recorded.
InitHistory == NoCalls /\ watched \in Options

Bump(n) == IF n < MaxHits THEN n + 1 ELSE n

\* A call that is not recorded, made after the first recorded one, is counted.
Other == others' = IF fnHits + methodHits > 0 THEN Bump(others) ELSE others

\* ----------------------------------------------------- the caller's calls
\* let r = require(option);
Call_require(option) ==
    LET out == require(option) IN
    /\ last' = [op |-> "require", arg |-> option, out |-> out]
    /\ IF option = watched
       THEN fnOut' = fnOut \cup {out} /\ fnHits' = Bump(fnHits) /\ UNCHANGED others
       ELSE Other /\ UNCHANGED <<fnOut, fnHits>>
    /\ UNCHANGED <<watched, methodOut, methodHits, scan>>

\* let r = option.require();
Call_Require_require(option) ==
    LET out == Require_require(option) IN
    /\ last' = [op |-> "Require::require", arg |-> option, out |-> out]
    /\ IF option = watched
       THEN methodOut' = methodOut \cup {out} /\ methodHits' = Bump(methodHits)
            /\ UNCHANGED others
       ELSE Other /\ UNCHANGED <<methodOut, methodHits>>
    /\ UNCHANGED <<watched, fnOut, fnHits, scan>>

\* let r = option.ok_or_not_found::<B>();
Call_ok_or_not_found(option, B) ==
    /\ last' = [op |-> "ok_or_not_found", arg |-> [self |-> option, B |-> B],
                out |-> OkOrNotFound_ok_or_not_found(option, B)]
    /\ Other
    /\ UNCHANGED <<watched, fnOut, methodOut, fnHits, methodHits, scan>>

\* let e = not_found::<T>();
Call_not_found(T) ==
    /\ last' = [op |-> "not_found", arg |-> T, out |-> not_found(T)]
    /\ Other
    /\ UNCHANGED <<watched, fnOut, methodOut, fnHits, methodHits, scan>>

\* let e = NotFoundError::<T>::new();
Call_new(T) ==
    /\ last' = [op |-> "new", arg |-> T, out |-> NotFoundError_new(T)]
    /\ Other
    /\ UNCHANGED <<watched, fnOut, methodOut, fnHits, methodHits, scan>>

\* let e = NotFoundError::<T>::default();
Call_default(T) ==
    /\ last' = [op |-> "default", arg |-> T, out |-> NotFoundError_default(T)]
    /\ Other
    /\ UNCHANGED <<watched, fnOut, methodOut, fnHits, methodHits, scan>>

\* let r: Result<T, ErrOut> = NotFoundError::<T>::result();
Call_result(T, ErrOut) ==
    /\ last' = [op |-> "result", arg |-> [T |-> T, ErrOut |-> ErrOut],
                out |-> NotFoundError_result(T, ErrOut)]
    /\ Other
    /\ UNCHANGED <<watched, fnOut, methodOut, fnHits, methodHits, scan>>

\* The places a NotFoundError<T> comes from.
Sites == {"new", "default", "not_found", "require", "Require::require",
          "ok_or_not_found", "locate", "result"}

ErrorFrom(site, T) ==
    CASE site = "new" -> NotFoundError_new(T)
      [] site = "default" -> NotFoundError_default(T)
      [] site = "not_found" -> not_found(T)
      [] site = "require" -> require(None(T)).err
      [] site = "Require::require" -> Require_require(None(T)).err
      [] site = "ok_or_not_found" ->
            OkOrNotFound_ok_or_not_found(None(CHOOSE U \in Types : U # T), T).err
      [] site = "locate" -> locate([T |-> T, items |-> <<>>], "is_zero").err
      [] site = "result" -> NotFoundError_result(T, "Self").err

\* let s = e.to_string();
Call_to_string(site, T) ==
    /\ last' = [op |-> "to_string", arg |-> [site |-> site, T |-> T],
                out |-> Display_fmt(ErrorFrom(site, T))]
    /\ Other
    /\ UNCHANGED <<watched, fnOut, methodOut, fnHits, methodHits, scan>>

\* a == b, a.cmp(&b), and the hashes of a and b from a fresh hasher.
Call_compare(siteA, siteB, T) ==
    LET a == ErrorFrom(siteA, T)
        b == ErrorFrom(siteB, T)
    IN
    /\ last' = [op |-> "compare",
                arg |-> [a |-> siteA, b |-> siteB, T |-> T],
                out |-> [a |-> a, b |-> b,
                         eq |-> NotFoundError_eq(a, b),
                         cmp |-> NotFoundError_cmp(a, b),
                         hashA |-> NotFoundError_hash(a, <<>>),
                         hashB |-> NotFoundError_hash(b, <<>>)]]
    /\ Other
    /\ UNCHANGED <<watched, fnOut, methodOut, fnHits, methodHits, scan>>

\* let r = locate(iterable, f);  on a finite iterable
Call_locate(iterable, f) ==
    /\ last' = [op |-> "locate", arg |-> [iter |-> iterable, f |-> f],
                out |-> locate(iterable, f)]
    /\ Other
    /\ UNCHANGED <<watched, fnOut, methodOut, fnHits, methodHits, scan>>

Next ==
    \/ \E option \in Options : Call_require(option)
    \/ \E option \in Options : Call_Require_require(option)
    \/ \E option \in Options, B \in Types : Call_ok_or_not_found(option, B)
    \/ \E T \in Types : Call_not_found(T)
    \/ \E T \in Types : Call_new(T)
    \/ \E T \in Types : Call_default(T)
    \/ \E T \in Types, ErrOut \in ErrOuts : Call_result(T, ErrOut)
    \/ \E site \in Sites, T \in Types : Call_to_string(site, T)
    \/ \E siteA \in Sites, siteB \in Sites, T \in Types : Call_compare(siteA, siteB, T)
    \/ \E iterable \in Iterables, f \in Predicates : Call_locate(iterable, f)

Spec == Init /\ [][Next]_vars

\* The calls of the conversions and constructors, with one Option value's
\* results recorded.
NextHistory ==
    \/ \E option \in Options : Call_require(option)
    \/ \E option \in Options : Call_Require_require(option)
    \/ \E option \in Options, B \in Types : Call_ok_or_not_found(option, B)
    \/ \E T \in Types : Call_not_found(T)
    \/ \E T \in Types : Call_new(T)
    \/ \E iterable \in IterablesUpTo(MaxHistoryLen), f \in Predicates :
          Call_locate(iterable, f)

SpecHistory == InitHistory /\ [][NextHistory]_vars

\* ------------------------------------------- locate, one iterator step each
\* The iterables a stepwise locate runs on: a finite sequence, or the same
\* sequence repeated forever (items.iter().cycle()).
Sources == [T : ItemTypes, items : SeqsUpTo(MaxLen), cycle : BOOLEAN]

\* The k-th item the source yields, k = 1, 2, ...
ItemAt(src, k) ==
    Item(src.T, src.items[IF src.cycle THEN ((k - 1) % Len(src.items)) + 1 ELSE k])

\* Whether the source yields a k-th item.
HasItem(src, k) ==
    IF src.cycle THEN Len(src.items) > 0 ELSE k <= Len(src.items)

\* locate(src, f) is entered: iter.into_iter() is built, nothing is pulled yet.
Locate_start(src, f) ==
    /\ pc = "idle"
    /\ pc' = "find"
    /\ it' = src
    /\ pred' = f
    /\ pos' = 0
    /\ evals' = <<>>
    /\ found' = Nothing
    /\ ret' = Nothing
    /\ UNCHANGED <<last, history>>

\* Variant: the scan does not stop at a match; it keeps the match and pulls on
\* to the end of the source (filter(f).last()).
Find_next_to_the_end ==
    /\ pc = "find"
    /\ pos < MaxLen + MaxExtraPulls
    /\ IF HasItem(it, pos + 1)
       THEN /\ pos' = pos + 1
            /\ evals' = Append(evals, pos + 1)
            /\ found' = IF Apply(pred, ItemAt(it, pos + 1))
                        THEN Some(ItemAt(it, pos + 1)) ELSE found
            /\ UNCHANGED pc
       ELSE /\ found' = IF found = Nothing THEN None(it.T) ELSE found
            /\ pc' = "return"
            /\ UNCHANGED <<pos, evals>>
    /\ UNCHANGED <<last, history, it, pred, ret>>

\* One turn of Iterator::find's loop: pull the next item; at the end return
\* None; on an item the predicate accepts return Some(item); else go on.
Find_next ==
    /\ pc = "find"
    /\ pos < MaxLen + MaxExtraPulls
    /\ IF HasItem(it, pos + 1)
       THEN /\ pos' = pos + 1
            /\ evals' = Append(evals, pos + 1)
            /\ IF Apply(pred, ItemAt(it, pos + 1))
               THEN found' = Some(ItemAt(it, pos + 1)) /\ pc' = "return"
               ELSE UNCHANGED <<found, pc>>
       ELSE /\ found' = None(it.T)
            /\ pc' = "return"
            /\ UNCHANGED <<pos, evals>>
    /\ UNCHANGED <<last, history, it, pred, ret>>

\* require(<what find returned>) is locate's result.
Locate_return ==
    /\ pc = "return"
    /\ ret' = require(found)
    /\ pc' = "done"
    /\ UNCHANGED <<last, history, it, pred, pos, evals, found>>

\* The caller has taken the result; the call's frame is gone.
Locate_done ==
    /\ pc = "done"
    /\ pc' = "idle"
    /\ it' = NoIter
    /\ pred' = "is_even"
    /\ pos' = 0
    /\ evals' = <<>>
    /\ found' = Nothing
    /\ ret' = Nothing
    /\ UNCHANGED <<last, history>>

NextLocate ==
    \/ \E src \in Sources, f \in Predicates : Locate_start(src, f)
    \/ Find_next
    \/ Locate_return
    \/ Locate_done

SpecLocate == Init /\ [][NextLocate]_vars

\* A call that was entered runs on: the code is synchronous and never waits.
FairLocate == SpecLocate /\ WF_vars(Find_next) /\ WF_vars(Locate_return)

\* ------------------------------------------------------------------ claims
\* C1: require applied to a present optional Some(v) returns Ok(v) with the
\* same value v, for every value of every type; never an error.
RequireSomeIsOk ==
    (last.op = "require" /\ last.arg.kind = "Some") =>
        /\ last.out.kind = "Ok"
        /\ last.out.val = last.arg.val

RequireSomeIsOk_witness ==
    /\ last.op = "require"
    /\ last.arg = [kind |-> "Some", T |-> "String", val |-> [T |-> "String", v |-> MaxInt]]
    /\ last.out.kind = "Ok"

\* C2: require applied to an absent optional None::<T> returns Err(e) with
\* e = NotFoundError::<T>::new(), tagged with the optional's own type T; it
\* never returns success and never panics.
RequireNoneIsErr ==
    (last.op = "require" /\ last.arg.kind = "None") =>
        /\ last.out.kind = "Err"
        /\ last.out = [kind |-> "Err", err |-> NotFoundError_new(last.arg.T)]
        /\ last.out.err.f0.T = last.arg.T

RequireNoneIsErr_witness ==
    /\ last.op = "require"
    /\ last.arg = [kind |-> "None", T |-> "&i32"]
    /\ last.out.kind = "Err"

\* The indices of the items of a finite sequence that the predicate accepts.
Matches(T, items, f) == {i \in 1..Len(items) : Apply(f, Item(T, items[i]))}

\* C3: locate(s, p) on a finite sequence returns Ok(x) with x the item at the
\* smallest index whose item satisfies p, and returns Err(NotFoundError) tagged
\* with the item type exactly when no item satisfies p (s empty included).
LocateFirstMatch ==
    last.op = "locate" =>
        LET T == last.arg.iter.T
            s == last.arg.iter.items
            M == Matches(T, s, last.arg.f)
        IN  /\ M = {} <=> last.out.kind = "Err"
            /\ M = {} => last.out = [kind |-> "Err", err |-> NotFoundError_new(T)]
            /\ M # {} =>
                 \E i \in M :
                    /\ \A j \in M : i <= j
                    /\ last.out = [kind |-> "Ok", val |-> [T |-> T, v |-> s[i]]]

LocateFirstMatch_witness ==
    /\ last.op = "locate"
    /\ last.arg.iter.items = <<1, 2, 0>>
    /\ last.arg.f = "is_even"
    /\ last.out = [kind |-> "Ok", val |-> [T |-> "&i32", v |-> 2]]

\* C4: the method form and the free function agree on every input: whatever
\* o.require() returned for an optional o equals whatever require(o) returned.
MethodAgreesWithFunction ==
    \A a \in fnOut : \A b \in methodOut : a = b

MethodAgreesWithFunction_witness ==
    /\ watched.kind = "Some"
    /\ fnOut # {}
    /\ methodOut # {}

\* C5: ok_or_not_found::<B>() returns Ok(v) unchanged on Some(v) whatever B is,
\* and Err(NotFoundError<B>) on None: the tag is B, not the element type.
OkOrNotFoundTagsB ==
    last.op = "ok_or_not_found" =>
        IF last.arg.self.kind = "Some"
        THEN last.out = [kind |-> "Ok", val |-> last.arg.self.val]
        ELSE /\ last.out = [kind |-> "Err", err |-> NotFoundError_new(last.arg.B)]
             /\ last.out.err.f0.T = last.arg.B

OkOrNotFoundTagsB_witness ==
    /\ last.op = "ok_or_not_found"
    /\ last.arg.self = [kind |-> "None", T |-> "i32"]
    /\ last.arg.B = "String"
    /\ last.out.kind = "Err"

\* C6: NotFoundError<T> values of one T are indistinguishable wherever they were
\* built (new, default, not_found, the error of require, ok_or_not_found or
\* locate): they are equal, compare Equal, and hash to the same value.
ErrorsIndistinguishable ==
    last.op = "compare" =>
        /\ last.out.a = last.out.b
        /\ last.out.eq
        /\ last.out.cmp = "Equal"
        /\ last.out.hashA = last.out.hashB

ErrorsIndistinguishable_witness ==
    /\ last.op = "compare"
    /\ last.arg = [a |-> "default", b |-> "locate", T |-> "String"]
    /\ last.out.eq

\* C7: the display string of a NotFoundError<T> is the type name of T followed
\* by " not found" and nothing else; it depends on T only; for i32 it is
\* "i32 not found"; tags with different type names display differently.
DisplayIsTypeNameNotFound ==
    last.op = "to_string" =>
        /\ last.out = type_name(last.arg.T) \o " not found"
        /\ Len(last.out) = Len(type_name(last.arg.T)) + 10
        /\ last.arg.T = "i32" => last.out = "i32 not found"
        /\ \A U \in Types :
              type_name(U) # type_name(last.arg.T) =>
                 type_name(U) \o " not found" # last.out

DisplayIsTypeNameNotFound_witness ==
    /\ last.op = "to_string"
    /\ last.arg = [site |-> "require", T |-> "i32"]
    /\ last.out = "i32 not found"

\* C8: NotFoundError::<T>::result::<ErrOut>() always returns the error variant,
\* carrying the conversion into ErrOut of NotFoundError::<T>::new(); with
\* ErrOut = NotFoundError<T> it is Err(NotFoundError::<T>::new()).
ResultIsConvertedErr ==
    last.op = "result" =>
        /\ last.out.kind = "Err"
        /\ last.out.err = From_from(NotFoundError_new(last.arg.T), last.arg.ErrOut)
        /\ last.arg.ErrOut = "Self" =>
              last.out = [kind |-> "Err", err |-> NotFoundError_new(last.arg.T)]

ResultIsConvertedErr_witness ==
    /\ last.op = "result"
    /\ last.arg = [T |-> "i32", ErrOut |-> "BoxDynError"]
    /\ last.out.kind = "Err"
    /\ last.out.err.inner = NotFoundError_new("i32")

FirstMatch(src, f) ==
    LET M == Matches(src.T, src.items, f) IN
    IF M = {} THEN 0 ELSE CHOOSE i \in M : \A j \in M : i <= j

\* Whether the source ends or has a match.
FiniteOrMatching(src, f) ==
    ~src.cycle \/ Len(src.items) = 0 \/ FirstMatch(src, f) # 0

LocateScansLazily ==
    /\ evals = [k \in 1..pos |-> k]
    /\ \A k \in 1..(Len(evals) - 1) : ~Apply(pred, ItemAt(it, evals[k]))
    /\ pc \in {"return", "done"} =>
         /\ FiniteOrMatching(it, pred)
         /\ IF FirstMatch(it, pred) = 0
            THEN found = [kind |-> "None", T |-> it.T]
            ELSE /\ pos = FirstMatch(it, pred)
                 /\ found = [kind |-> "Some", T |-> it.T,
                             val |-> [T |-> it.T, v |-> it.items[pos]]]
    /\ pc = "done" =>
         IF FirstMatch(it, pred) = 0
         THEN ret = [kind |-> "Err", err |-> NotFoundError_new(it.T)]
         ELSE ret = [kind |-> "Ok", val |-> [T |-> it.T, v |-> it.items[pos]]]

\* C10: locate scans lazily and stops at the first match: the predicate is
\* evaluated on the items in iteration order, once each, and nothing is pulled
\* or evaluated after the first item that satisfies it; so locate returns on
\* every finite sequence, returns the first match on an infinite one that has a
\* match, and fails to return only on an infinite one without a match.
LocateLazyAndTerminates ==
    /\ []LocateScansLazily
    /\ (pc = "find" /\ FiniteOrMatching(it, pred)) ~> (pc = "done")

LocateLazyAndTerminates_witness ==
    /\ pc = "done"
    /\ it.cycle
    /\ it.items = <<1, 2, 0>>
    /\ pred = "is_even"
    /\ evals = <<1, 2>>
    /\ ret.kind = "Ok"

====
